---- MODULE Spec2Model ----
(***************************************************************************)
(* MediBill AI (src/app.py): extraction of a JSON object from the text a   *)
(* hosted model returns (parse_json_response), and the per-session         *)
(* memoisation of the two model queries of every bill item (the Visual Ref *)
(* and Coverage Info buttons and the result display).                      *)
(*                                                                         *)
(* A text is a sequence of atoms.  An atom is one punctuation or white     *)
(* space character, one digit, or an indivisible run of letters            *)
(* ("explanation", "null", ...).  No atom is a concatenation of other      *)
(* atoms, so two texts are equal exactly when their atom sequences are.    *)
(* A Python value is a record [t |-> type tag, v |-> payload].             *)
(***************************************************************************)
EXTENDS Integers, Sequences, FiniteSets, TLC

VARIABLES
    text,           \* parse_json_response: the argument of the call under study
    result,         \* parse_json_response: the value it returned
    raised,         \* parse_json_response: the exception that left it, or "none"
    pc,             \* "start" before the call, "done" after it, "idle" in a page session
    session_state,  \* st.session_state: key -> stored value (keys present only)
    api_log,        \* key -> what query_llm returned at every call made for it
    page,           \* what the latest script run displayed for every item
    error           \* the uncaught exception that ended the latest run, or "none"

vars == <<text, result, raised, pc, session_state, api_log, page, error>>

extractVars == <<text, result, raised, pc>>
sessionVars == <<session_state, api_log, page, error>>

----------------------------------------------------------------------------
(* Bounds *)

\* Every text of at most MaxLen atoms over Sigma is an input of the extractor.
MaxLen == 3
\* The model API is called at most MaxCalls times in one session.
MaxCalls == 3
\* The bill holds NumItems items.
NumItems == 2

----------------------------------------------------------------------------
(* Atoms *)

QUOTE  == "\""
BSLASH == "\\"
LBRACE == "{"
RBRACE == "}"
LBRACK == "["
RBRACK == "]"
COLON  == ":"
COMMA  == ","
SPACE  == " "
NEWLINE == "\n"
TAB    == "\t"
\* the markdown code fence, three backticks
FENCE  == "<fence>"

\* json.decoder.WHITESPACE: space, tab, newline, carriage return
IsWhitespace(c) == c \in {SPACE, NEWLINE, TAB}

\* The characters json's strict string scanner refuses unescaped.
IsControl(c) == c \in {NEWLINE, TAB}

IsDigit(c) == c \in {"0", "5"}

DigitValue(c) == IF c = "5" THEN 5 ELSE 0

----------------------------------------------------------------------------
(* Python values *)

PyNone    == [t |-> "None", v |-> <<>>]
PyTrue    == [t |-> "bool", v |-> <<TRUE>>]
PyStr(s)  == [t |-> "str",  v |-> s]
PyInt(n)  == [t |-> "int",  v |-> <<n>>]
PyFloat(x) == [t |-> "float", v |-> <<x>>]
PyList(vs) == [t |-> "list", v |-> vs]
PyDict(f) == [t |-> "dict", v |-> f]

EmptyMap == [k \in {} |-> PyNone]

\* bool(x), as the conditional expressions of lines 336 and 364 use it
Truthy(x) ==
    CASE x.t = "None" -> FALSE
      [] x.t = "bool" -> x.v[1]
      [] x.t = "int"  -> x.v[1] # 0
      [] x.t = "float" -> TRUE   \* nan and the infinities are not 0.0
      [] x.t = "str"  -> Len(x.v) > 0
      [] x.t = "list" -> Len(x.v) > 0
      [] x.t = "dict" -> DOMAIN x.v # {}

----------------------------------------------------------------------------
(* json.loads, as the standard decoder scans a text.  Every scanning       *)
(* operator returns [ok, val, end]: whether a value was scanned, the value *)
(* and the index after it.  ok = FALSE stands for json.JSONDecodeError.    *)

Fail == [ok |-> FALSE, val |-> PyNone, end |-> 0]
Scanned(val, end) == [ok |-> TRUE, val |-> val, end |-> end]

CharAt(s, i) == IF i \in 1..Len(s) THEN s[i] ELSE ""

\* WHITESPACE.match(s, i).end(): the index of the first atom at or after i
\* that is no white space
RECURSIVE SkipWs(_, _)
SkipWs(s, i) ==
    IF i <= Len(s) /\ IsWhitespace(s[i]) THEN SkipWs(s, i + 1) ELSE i

\* json.decoder.BACKSLASH applied to the character after a backslash; the
\* letter runs "null" and "true" begin with the escapes \n and \t.  <<>> is
\* an invalid escape.
Unescape(c) ==
    CASE c = QUOTE  -> <<QUOTE>>
      [] c = BSLASH -> <<BSLASH>>
      [] c = "null" -> <<NEWLINE, "ull">>
      [] c = "true" -> <<TAB, "rue">>
      [] OTHER      -> <<>>

\* py_scanstring(s, end, strict=True): i is the index after the opening
\* quote, acc the content decoded so far
RECURSIVE ScanString(_, _, _)
ScanString(s, i, acc) ==
    IF i > Len(s) THEN Fail
    ELSE IF s[i] = QUOTE THEN Scanned(PyStr(acc), i + 1)
    ELSE IF IsControl(s[i]) THEN Fail
    ELSE IF s[i] = BSLASH
        THEN IF i + 1 > Len(s) \/ Unescape(s[i + 1]) = <<>>
                THEN Fail
                ELSE ScanString(s, i + 2, acc \o Unescape(s[i + 1]))
    ELSE ScanString(s, i + 1, Append(acc, s[i]))

\* NUMBER_RE at a digit: "0" alone, or a run of digits that starts with a
\* digit other than 0
RECURSIVE ScanDigits(_, _, _)
ScanDigits(s, i, n) ==
    IF i <= Len(s) /\ IsDigit(s[i])
        THEN ScanDigits(s, i + 1, 10 * n + DigitValue(s[i]))
        ELSE Scanned(PyInt(n), i)

ScanNumber(s, i) ==
    IF s[i] = "0" THEN Scanned(PyInt(0), i + 1) ELSE ScanDigits(s, i, 0)

\* the scanner at "-": a negative number, or the constant -Infinity
ScanMinus(s, i) ==
    IF IsDigit(CharAt(s, i + 1))
        THEN LET n == ScanNumber(s, i + 1) IN Scanned(PyInt(0 - n.val.v[1]), n.end)
    ELSE IF CharAt(s, i + 1) = "Infinity" THEN Scanned(PyFloat("-inf"), i + 2)
    ELSE Fail

RECURSIVE ScanOnce(_, _)
RECURSIVE ObjectMembers(_, _, _)
RECURSIVE ArrayItems(_, _, _)

\* JSONObject: i is the index after "{"
JSONObject(s, i) ==
    LET j == IF CharAt(s, i) # QUOTE THEN SkipWs(s, i) ELSE i
    IN  IF CharAt(s, j) = RBRACE THEN Scanned(PyDict(EmptyMap), j + 1)
        ELSE IF CharAt(s, j) # QUOTE THEN Fail
        ELSE ObjectMembers(s, j + 1, EmptyMap)

\* the loop of JSONObject: i is the index after the opening quote of a key,
\* pairs the members read so far (a later member replaces an earlier one of
\* the same key, as dict(pairs) does)
ObjectMembers(s, i, pairs) ==
    LET key == ScanString(s, i, <<>>)
    IN  IF ~key.ok THEN Fail
        ELSE
        LET c == SkipWs(s, key.end)
        IN  IF CharAt(s, c) # COLON THEN Fail
            ELSE
            LET value == ScanOnce(s, SkipWs(s, c + 1))
            IN  IF ~value.ok THEN Fail
                ELSE
                LET e      == SkipWs(s, value.end)
                    pairs2 == (key.val.v :> value.val) @@ pairs
                IN  IF CharAt(s, e) = RBRACE THEN Scanned(PyDict(pairs2), e + 1)
                    ELSE IF CharAt(s, e) # COMMA THEN Fail
                    ELSE
                    LET k == SkipWs(s, e + 1)
                    IN  IF CharAt(s, k) # QUOTE THEN Fail
                        ELSE ObjectMembers(s, k + 1, pairs2)

\* JSONArray: i is the index after "["
JSONArray(s, i) ==
    LET j == SkipWs(s, i)
    IN  IF CharAt(s, j) = RBRACK THEN Scanned(PyList(<<>>), j + 1)
        ELSE ArrayItems(s, j, <<>>)

\* the loop of JSONArray: i is the index where the next item starts
ArrayItems(s, i, values) ==
    LET value == ScanOnce(s, i)
    IN  IF ~value.ok THEN Fail
        ELSE
        LET e       == SkipWs(s, value.end)
            values2 == Append(values, value.val)
        IN  IF CharAt(s, e) = RBRACK THEN Scanned(PyList(values2), e + 1)
            ELSE IF CharAt(s, e) # COMMA THEN Fail
            ELSE ArrayItems(s, SkipWs(s, e + 1), values2)

\* json.scanner.py_make_scanner._scan_once; the decoder's default
\* parse_constant accepts NaN, Infinity and -Infinity, which are no JSON
ScanOnce(s, i) ==
    LET c == CharAt(s, i)
    IN  CASE c = QUOTE  -> ScanString(s, i + 1, <<>>)
          [] c = LBRACE -> JSONObject(s, i + 1)
          [] c = LBRACK -> JSONArray(s, i + 1)
          [] c = "null" -> Scanned(PyNone, i + 1)
          [] c = "true" -> Scanned(PyTrue, i + 1)
          [] IsDigit(c) -> ScanNumber(s, i)
          [] c = "-"    -> ScanMinus(s, i)
          [] c = "NaN"  -> Scanned(PyFloat("nan"), i + 1)
          [] c = "Infinity" -> Scanned(PyFloat("inf"), i + 1)
          [] OTHER      -> Fail

\* json.loads(s) = JSONDecoder.decode(s): one value, white space around it,
\* nothing else ("Extra data" otherwise)
json_loads(s) ==
    LET r == ScanOnce(s, SkipWs(s, 1))
    IN  IF r.ok /\ SkipWs(s, r.end) = Len(s) + 1 THEN r ELSE Fail

----------------------------------------------------------------------------
(* re.search(r'\{.*\}', text, re.DOTALL) *)

Positions(s, c) == {i \in 1..Len(s) : s[i] = c}

Min(S) == CHOOSE x \in S : \A y \in S : x <= y
Max(S) == CHOOSE x \in S : \A y \in S : x >= y

\* the starts at which the pattern can match: a "{" with a "}" somewhere
\* after it ("." matches every character under DOTALL)
MatchStarts(s) ==
    {i \in Positions(s, LBRACE) : \E j \in Positions(s, RBRACE) : j > i}

\* the pattern with a lazy ".*?": the match ends at the first "}" after its
\* start
re_search_lazy(s) ==
    IF MatchStarts(s) = {} THEN <<>>
    ELSE LET b == Min(MatchStarts(s))
             e == Min({j \in Positions(s, RBRACE) : j > b})
         IN  <<b, e>>

\* the pattern without re.DOTALL: "." matches no line break, so a match
\* lies within one line
re_search_no_dotall(s) ==
    LET InLine(b, e) == \A j \in b..e : s[j] # NEWLINE
        starts == {i \in Positions(s, LBRACE) :
                      \E j \in Positions(s, RBRACE) : j > i /\ InLine(i, j)}
    IN  IF starts = {} THEN <<>>
        ELSE LET b == Min(starts)
                 e == Max({j \in Positions(s, RBRACE) : j > b /\ InLine(b, j)})
             IN  <<b, e>>

\* re.search returns the leftmost match; ".*" is greedy, so the match ends
\* at the last "}" after its start.  <<>> stands for no match (None).
re_search(s) ==
    IF MatchStarts(s) = {} THEN <<>>
    ELSE LET b == Min(MatchStarts(s))
             e == Max({j \in Positions(s, RBRACE) : j > b})
         IN  <<b, e>>

\* match.group(0)
group0(s, m) == SubSeq(s, m[1], m[2])

----------------------------------------------------------------------------
(* parse_json_response(text): [ret |-> the value returned, exc |-> the     *)
(* exception that left the function, "none" when it returned]              *)

Returned(val) == [ret |-> val, exc |-> "none"]
Raised(exc)   == [ret |-> PyNone, exc |-> exc]

parse_json_response(t) ==
    IF t.t # "str"
        \* re.search on a value that is no string raises TypeError, which
        \* the except clause (json.JSONDecodeError) does not catch
        THEN Raised("TypeError")
    ELSE
    LET m      == re_search(t.v)
        loaded == IF m # <<>> THEN json_loads(group0(t.v, m)) ELSE json_loads(t.v)
    IN  IF loaded.ok THEN Returned(loaded.val) ELSE Returned(PyNone)

----------------------------------------------------------------------------
(* The texts the extractor is applied to *)

\* the atoms of the exhaustively enumerated short texts
Sigma == {QUOTE, LBRACE, RBRACE, LBRACK, RBRACK, COLON, COMMA, NEWLINE,
          "5", "0", "null", "NaN", "x"}

RECURSIVE TextsUpTo(_)
TextsUpTo(n) ==
    IF n = 0 THEN {<<>>}
    ELSE LET shorter == TextsUpTo(n - 1)
         IN  shorter \cup {Append(t, a) : t \in {u \in shorter : Len(u) = n - 1},
                                          a \in Sigma}

ShortTexts == TextsUpTo(MaxLen)

\* the keys the prompt asks for (lines 355-360), in the order it names them
EXPLANATION == <<"explanation">>
STATUS      == <<"insurance_status">>
NOTE        == <<"insurance_note">>
DISCLAIMER  == <<"disclaimer">>
FieldOrder  == <<EXPLANATION, STATUS, NOTE, DISCLAIMER>>
FieldNames  == {FieldOrder[k] : k \in 1..Len(FieldOrder)}

\* the three insurance_status values the prompt allows (line 357)
LIKELY_COVERED    == PyStr(<<"LIKELY_COVERED">>)
PARTIALLY_COVERED == PyStr(<<"PARTIALLY_COVERED">>)
NOT_COVERED       == PyStr(<<"NOT_COVERED">>)
StatusValues == {LIKELY_COVERED, PARTIALLY_COVERED, NOT_COVERED}

\* what the model may put under each key: well-formed values, strings that
\* hold braces, quotes and backslashes, values outside the enumeration,
\* null, and the constants NaN and -Infinity
FieldValues(k) ==
    CASE k = EXPLANATION -> {PyStr(<<"x">>), PyStr(<<"x", RBRACE>>),
                             PyStr(<<LBRACE, QUOTE>>), PyStr(<<>>), PyNone,
                             PyFloat("nan")}
      [] k = STATUS      -> StatusValues \cup {PyStr(<<"MAYBE">>),
                                               PyStr(<<"likely_covered">>), PyNone}
      [] k = NOTE        -> {PyStr(<<>>), PyStr(<<"x", BSLASH>>), PyFloat("-inf")}
      [] k = DISCLAIMER  -> {PyStr(<<"x">>)}

\* every object over a subset of the four keys
Objects ==
    UNION {{f \in [D -> UNION {FieldValues(k) : k \in D}] :
                \A k \in D : f[k] \in FieldValues(k)} : D \in SUBSET FieldNames}

\* json.dumps of a string: quotes around it, quote and backslash escaped
RECURSIVE EscapeChars(_)
EscapeChars(cs) ==
    IF cs = <<>> THEN <<>>
    ELSE (IF Head(cs) \in {QUOTE, BSLASH} THEN <<BSLASH, Head(cs)>> ELSE <<Head(cs)>>)
         \o EscapeChars(Tail(cs))

DumpString(cs) == <<QUOTE>> \o EscapeChars(cs) \o <<QUOTE>>

DumpValue(x) ==
    CASE x.t = "None"  -> <<"null">>
      [] x.t = "float" -> IF x.v[1] = "nan" THEN <<"NaN">> ELSE <<"-", "Infinity">>
      [] OTHER         -> DumpString(x.v)

\* the members of object f from key number k on, in FieldOrder; "compact"
\* writes no white space, "indented" a line break before every member and a
\* space after every colon
RECURSIVE DumpMembers(_, _, _, _)
DumpMembers(f, k, style, first) ==
    IF k > Len(FieldOrder) THEN <<>>
    ELSE IF FieldOrder[k] \notin DOMAIN f THEN DumpMembers(f, k + 1, style, first)
    ELSE (IF first THEN <<>> ELSE <<COMMA>>)
         \o (IF style = "indented" THEN <<NEWLINE>> ELSE <<>>)
         \o DumpString(FieldOrder[k]) \o <<COLON>>
         \o (IF style = "indented" THEN <<SPACE>> ELSE <<>>)
         \o DumpValue(f[FieldOrder[k]])
         \o DumpMembers(f, k + 1, style, FALSE)

Styles == {"compact", "indented"}

\* the JSON text of object f
Dump(f, style) ==
    <<LBRACE>> \o DumpMembers(f, 1, style, TRUE)
    \o (IF style = "indented" /\ DOMAIN f # {} THEN <<NEWLINE>> ELSE <<>>)
    \o <<RBRACE>>

\* the same text with a comma before the closing brace, which is no JSON
DumpTrailingComma(f, style) ==
    LET d == Dump(f, style) IN SubSeq(d, 1, Len(d) - 1) \o <<COMMA, RBRACE>>

\* what the model writes around the object: nothing, prose, a code fence, a
\* second object
Wrappings ==
    { <<<<>>, <<>>>>,
      <<<<"Sure", SPACE>>, <<SPACE, "Sure">>>>,
      <<<<FENCE, "json", NEWLINE>>, <<NEWLINE, FENCE>>>>,
      <<<<>>, <<SPACE, LBRACE, RBRACE>>>>,
      <<<<"Sure", RBRACE, SPACE>>, <<SPACE, LBRACE>>>> }

ObjectTexts ==
    {w[1] \o Dump(f, st) \o w[2] : w \in Wrappings, f \in Objects, st \in Styles}
    \cup {w[1] \o DumpTrailingComma(f, "compact") \o w[2] :
              w \in Wrappings, f \in Objects}

\* the arguments of parse_json_response: every text above, and None, which
\* is what query_llm returns when the model call fails (line 85)
Inputs == {PyStr(t) : t \in ShortTexts \cup ObjectTexts} \cup {PyNone}

----------------------------------------------------------------------------
(* The page session: the script of lines 290-405 runs once for every page  *)
(* load, button click or other widget change.                              *)

\* fetch_bill(): the rows of bill_items, told apart by item_name
items == [k \in 1..NumItems |-> <<"item", k>>]
ItemSet == {items[k] : k \in 1..NumItems}

\* lines 307-308
exp_key(item_name) == <<"explain_", item_name>>
img_key(item_name) == <<"image_", item_name>>
AllKeys == {exp_key(i) : i \in ItemSet} \cup {img_key(i) : i \in ItemSet}

FAILED              == PyStr(<<"FAILED">>)
SERVICE_UNAVAILABLE == PyStr(<<"Service unavailable">>)

\* what model.generate_content(prompt) / response.text does: an exception
\* (transport, quota, blocked response) or a text
UpstreamError == [t |-> "error", v |-> <<>>]

\* query_llm: the text, or None when the call raised
query_llm(upstream) == IF upstream.t = "error" THEN PyNone ELSE upstream

full_record ==
    (EXPLANATION :> PyStr(<<"x">>)) @@ (STATUS :> LIKELY_COVERED)
    @@ (NOTE :> PyStr(<<>>)) @@ (DISCLAIMER :> PyStr(<<"x">>))

\* the model's answers to the Coverage Info prompt
CoverageReplies ==
    {UpstreamError} \cup
    {PyStr(t) : t \in {
        Dump(full_record, "compact"),
        <<FENCE, "json", NEWLINE>> \o Dump(full_record, "indented") \o <<NEWLINE, FENCE>>,
        Dump((EXPLANATION :> PyStr(<<"x">>)) @@ (STATUS :> PyStr(<<"MAYBE">>)), "compact"),
        Dump((EXPLANATION :> PyStr(<<"x">>)), "compact"),
        <<LBRACK, "5", RBRACK>>,
        <<QUOTE, "FAILED", QUOTE>>,
        <<"Sure">>,
        <<>> }}

\* the model's answers to the Visual Ref prompt
VisualReplies ==
    {UpstreamError, PyStr(<<>>), PyStr(<<"FAILED">>), PyStr(<<"Sure">>)}

NotRendered == [img |-> "not_rendered", exp |-> "not_rendered"]
Blank       == [img |-> "nothing", exp |-> "nothing"]

Logged(log, key, resp) == [log EXCEPT ![key] = Append(@, resp)]

\* the handler storing the failure marker when the query failed
VisualRefButton_marks_failure(st, item_name, upstream) ==
    IF img_key(item_name) \in DOMAIN st.ss THEN st
    ELSE LET resp == query_llm(upstream)
         IN  [st EXCEPT
                !.ss  = (img_key(item_name) :>
                            (IF Truthy(resp) THEN resp ELSE FAILED)) @@ @,
                !.log = Logged(@, img_key(item_name), resp)]

\* lines 326-336: the Visual Ref button of one item was clicked
VisualRefButton(st, item_name, upstream) ==
    IF img_key(item_name) \in DOMAIN st.ss THEN st
    ELSE LET resp == query_llm(upstream)
         IN  [st EXCEPT
                !.ss  = (img_key(item_name) :>
                            (IF Truthy(resp) THEN resp ELSE SERVICE_UNAVAILABLE)) @@ @,
                !.log = Logged(@, img_key(item_name), resp)]

\* line 364 and what follows an exception of line 363: parsed is what
\* parse_json_response(raw_text) did
StoreParsed(st, item_name, raw_text, parsed) ==
    IF parsed.exc # "none"
        THEN [st EXCEPT !.log = Logged(@, exp_key(item_name), raw_text),
                        !.err = parsed.exc]
        ELSE [st EXCEPT
                !.ss  = (exp_key(item_name) :>
                            (IF Truthy(parsed.ret) THEN parsed.ret ELSE FAILED)) @@ @,
                !.log = Logged(@, exp_key(item_name), raw_text)]

\* lines 340-364: the Coverage Info button of one item was clicked
CoverageInfoButton(st, item_name, upstream) ==
    IF exp_key(item_name) \in DOMAIN st.ss THEN st
    ELSE StoreParsed(st, item_name, query_llm(upstream),
                     parse_json_response(query_llm(upstream)))

\* val == "FAILED" (lines 371, 382)
IsFailed(val) == val.t = "str" /\ val.v = <<"FAILED">>

\* lines 369-376
ImageDisplay(ss, item_name) ==
    IF img_key(item_name) \notin DOMAIN ss THEN "nothing"
    ELSE IF IsFailed(ss[img_key(item_name)]) THEN "error"
    ELSE "info"

\* data.get("insurance_status", "UNKNOWN") of a dict (line 386)
StatusOf(data) ==
    IF STATUS \in DOMAIN data.v THEN data.v[STATUS] ELSE PyStr(<<"UNKNOWN">>)

\* lines 379-395; "AttributeError" when data.get is called on a value that
\* is no dict
ExplanationDisplay(ss, item_name) ==
    IF exp_key(item_name) \notin DOMAIN ss THEN "nothing"
    ELSE LET data == ss[exp_key(item_name)]
         IN  IF IsFailed(data) THEN "error"
             ELSE IF data.t # "dict" THEN "AttributeError"
             ELSE IF StatusOf(data) = LIKELY_COVERED THEN "Likely Covered"
             ELSE IF StatusOf(data) = PARTIALLY_COVERED THEN "Partially Covered"
             ELSE "Not Usually Covered"

CoverageBadges == {"Likely Covered", "Partially Covered", "Not Usually Covered"}

\* lines 324-364 for one item: the button that was clicked, if it is one of
\* this item's.  click is the button that caused the run, <<>> when none did.
Buttons(st, item_name, click, upstream) ==
    IF click = <<"img", item_name>> THEN VisualRefButton(st, item_name, upstream)
    ELSE IF click = <<"exp", item_name>> THEN CoverageInfoButton(st, item_name, upstream)
    ELSE st

\* lines 366-395 for one item, st being the state its buttons left
Display(st, item_name, img, exp) ==
    IF st.err # "none" THEN st
    ELSE IF exp = "AttributeError"
        THEN [st EXCEPT !.page[item_name] = [img |-> img, exp |-> "not_rendered"],
                        !.err = "AttributeError"]
    ELSE [st EXCEPT !.page[item_name] = [img |-> img, exp |-> exp]]

DisplayItem(st, item_name) ==
    Display(st, item_name, ImageDisplay(st.ss, item_name),
            ExplanationDisplay(st.ss, item_name))

\* the loop of lines 305-405 from item number k on.  An uncaught exception
\* ends the run: nothing after it is executed or displayed.
RECURSIVE RenderItems(_, _, _, _)
RenderItems(st, k, click, upstream) ==
    IF k > NumItems \/ st.err # "none" THEN st
    ELSE RenderItems(DisplayItem(Buttons(st, items[k], click, upstream), items[k]),
                     k + 1, click, upstream)

RECURSIVE CallsFrom(_, _)
CallsFrom(log, k) ==
    IF k > NumItems THEN 0
    ELSE Len(log[exp_key(items[k])]) + Len(log[img_key(items[k])]) + CallsFrom(log, k + 1)

\* the number of model calls made so far
TotalCalls(log) == CallsFrom(log, 1)

\* one run of the script: the state it leaves
Script(click, upstream) ==
    RenderItems([ss   |-> session_state,
                 log  |-> api_log,
                 page |-> [i \in ItemSet |-> NotRendered],
                 err  |-> "none"],
                1, click, upstream)

\* a click on the Visual Ref button of an item, and the run it causes
ClickVisualRef ==
    \E i \in ItemSet, u \in VisualReplies :
        \E st \in {Script(<<"img", i>>, u)} :
            /\ TotalCalls(st.log) <= MaxCalls
            /\ session_state' = st.ss
            /\ api_log' = st.log
            /\ page' = st.page
            /\ error' = st.err
            /\ UNCHANGED extractVars

\* a click on the Coverage Info button of an item, and the run it causes
ClickCoverageInfo ==
    \E i \in ItemSet, u \in CoverageReplies :
        \E st \in {Script(<<"exp", i>>, u)} :
            /\ TotalCalls(st.log) <= MaxCalls
            /\ session_state' = st.ss
            /\ api_log' = st.log
            /\ page' = st.page
            /\ error' = st.err
            /\ UNCHANGED extractVars

\* a run no button caused (the language or family-mode widget changed)
Rerun ==
    \E st \in {Script(<<>>, UpstreamError)} :
        /\ session_state' = st.ss
        /\ api_log' = st.log
        /\ page' = st.page
        /\ error' = st.err
        /\ UNCHANGED extractVars

\* the state after the page's first load: nothing stored, nothing displayed
InitSession ==
    /\ session_state = EmptyMap
    /\ api_log = [k \in AllKeys |-> <<>>]
    /\ page = [i \in ItemSet |-> Blank]
    /\ error = "none"

Init ==
    /\ InitSession
    /\ text = PyStr(<<>>)
    /\ result = PyNone
    /\ raised = "none"
    /\ pc = "idle"

Next == ClickVisualRef \/ ClickCoverageInfo \/ Rerun

Spec == Init /\ [][Next]_vars

----------------------------------------------------------------------------
(* The extractor alone: one call of parse_json_response on every input *)

InitExtract ==
    /\ text \in Inputs
    /\ result = PyNone
    /\ raised = "none"
    /\ pc = "start"
    /\ InitSession

Extract ==
    /\ pc = "start"
    /\ LET r == parse_json_response(text)
       IN  /\ result' = r.ret
           /\ raised' = r.exc
    /\ pc' = "done"
    /\ UNCHANGED <<text, sessionVars>>

NextExtract == Extract

SpecExtract == InitExtract /\ [][NextExtract]_vars

----------------------------------------------------------------------------
(* Properties of the extractor, checked under SpecExtract *)

\* the span the specification describes: from the first "{" of the text
\* through its last "}"
HasSpan(s) ==
    /\ Positions(s, LBRACE) # {}
    /\ Positions(s, RBRACE) # {}
    /\ Min(Positions(s, LBRACE)) < Max(Positions(s, RBRACE))

Span(s) == SubSeq(s, Min(Positions(s, LBRACE)), Max(Positions(s, RBRACE)))

\* the decoder accepts s and makes a dict of it
IsObjectText(s) == json_loads(s).ok /\ json_loads(s).val.t = "dict"

\* s is the text of a JSON object: the decoder accepts it with the
\* constants that are no JSON (NaN, Infinity) taken for a word that is none
\* either; within a string the change of word changes nothing
WithoutConstants(s) ==
    [j \in 1..Len(s) |-> IF s[j] \in {"NaN", "Infinity"} THEN "x" ELSE s[j]]

IsJsonObject(s) == IsObjectText(WithoutConstants(s))

RequiredFields == {EXPLANATION, STATUS}

\* the call returned, and returned a value its caller replaces by the
\* failure marker (None, or another value that is false, line 364)
ReturnedFailure == raised = "none" /\ ~Truthy(result)

\* C2: extraction applied to the empty string and to an absent input (None)
\* both end in the failure result (None returned, nothing raised), never in
\* a record.
C2_EmptyOrAbsentFails ==
    (pc = "done" /\ text \in {PyStr(<<>>), PyNone})
        => (raised = "none" /\ result = PyNone)

\* C5: an object that lacks explanation or insurance_status (key missing or
\* null) makes extraction fail: what extraction returns is a failure or an
\* object that has both.
C5_MissingFieldFails ==
    (pc = "done" /\ text.t = "str" /\ result.t = "dict")
        => \/ ReturnedFailure
           \/ \A k \in RequiredFields :
                 k \in DOMAIN result.v /\ result.v[k] # PyNone

\* C6: a text with no "{", or no "}", or whose last "}" is before its first
\* "{" makes extraction fail: nothing is raised and no value is returned
\* that the caller would store.
C6_NoBracesFails ==
    (pc = "done" /\ text.t = "str" /\ ~HasSpan(text.v)) => ReturnedFailure

FourFieldObjects ==
    {f \in Objects : /\ DOMAIN f = FieldNames
                     /\ f[STATUS] \in StatusValues
                     /\ \A k \in FieldNames : f[k].t # "float"}

\* C8: extraction of the JSON text of an object with the four fields and a
\* recognised insurance_status returns a record whose four fields are the
\* object's.
C8_RoundTrip ==
    pc = "done" =>
        \A f \in FourFieldObjects, st \in Styles :
            text = PyStr(Dump(f, st)) =>
                /\ raised = "none"
                /\ result.t = "dict"
                /\ \A k \in FieldNames : k \in DOMAIN result.v /\ result.v[k] = f[k]

\* C8's case: an object whose explanation ends with "}" and whose note ends
\* with a backslash comes back as written.
C8_Witness ==
    LET f == (EXPLANATION :> PyStr(<<"x", RBRACE>>)) @@ (STATUS :> NOT_COVERED)
             @@ (NOTE :> PyStr(<<"x", BSLASH>>)) @@ (DISCLAIMER :> PyStr(<<"x">>))
    IN  /\ pc = "done"
        /\ text = PyStr(Dump(f, "indented"))
        /\ result = PyDict(f)

----------------------------------------------------------------------------
(* Properties of the page session, checked under Spec *)

Stored(key) == session_state[key]

\* a fully valid record: a dict with a non-empty explanation and a
\* recognised insurance_status
ValidRecord(data) ==
    /\ data.t = "dict"
    /\ EXPLANATION \in DOMAIN data.v
    /\ data.v[EXPLANATION].t = "str"
    /\ Len(data.v[EXPLANATION].v) > 0
    /\ STATUS \in DOMAIN data.v
    /\ data.v[STATUS] \in StatusValues

\* C1: whatever the model call did, the Coverage Info flow of an item ends
\* with a record or the failure placeholder stored under the item's key, and
\* no run of the script ends in an uncaught exception.
C1_FailuresAreResults ==
    /\ error = "none"
    /\ \A i \in ItemSet :
          api_log[exp_key(i)] # <<>> =>
              /\ exp_key(i) \in DOMAIN session_state
              /\ IsFailed(Stored(exp_key(i))) \/ Stored(exp_key(i)).t = "dict"

\* C3: an insurance_status that is none of the three recognised values is
\* never displayed as one of the three coverage classes.
C3_UnrecognisedStatusIsError ==
    \A i \in ItemSet :
        (/\ exp_key(i) \in DOMAIN session_state
         /\ Stored(exp_key(i)).t = "dict"
         /\ STATUS \in DOMAIN Stored(exp_key(i)).v
         /\ page[i].exp \in CoverageBadges)
            => Stored(exp_key(i)).v[STATUS] \in StatusValues

\* C4: the value under an item's explanation key is the failure marker or a
\* fully valid record.
C4_MarkerOrValidRecord ==
    \A i \in ItemSet :
        exp_key(i) \in DOMAIN session_state =>
            IsFailed(Stored(exp_key(i))) \/ ValidRecord(Stored(exp_key(i)))

\* C9: the model is queried at most once for every key, and a stored value
\* is never overwritten or evicted nor followed by another query for its
\* key.
C9_QueriedOnce ==
    [][/\ \A k \in AllKeys : Len(api_log'[k]) <= 1
       /\ \A k \in DOMAIN session_state :
             /\ k \in DOMAIN session_state'
             /\ session_state'[k] = session_state[k]
             /\ api_log'[k] = api_log[k]]_vars

\* C10 as stated: the value under an item's image key is never the failure
\* marker, and the image display never takes its error branch.
C10_NeverFailureMarker ==
    \A i \in ItemSet :
        /\ img_key(i) \in DOMAIN session_state => ~IsFailed(Stored(img_key(i)))
        /\ page[i].img # "error"

\* C10 as amended: the value under an item's image key is what the one
\* query made for it returned, or "Service unavailable" when that query
\* failed or returned an empty text; it is the failure marker, and the
\* display takes its error branch, only when the model's reply was the text
\* FAILED itself.
C10_FailureMarkerOnlyFromReply ==
    \A i \in ItemSet :
        /\ img_key(i) \in DOMAIN session_state =>
              /\ Len(api_log[img_key(i)]) = 1
              /\ Stored(img_key(i)) =
                    IF api_log[img_key(i)][1] \in {PyNone, PyStr(<<>>)}
                        THEN SERVICE_UNAVAILABLE
                        ELSE api_log[img_key(i)][1]
              /\ IsFailed(Stored(img_key(i))) <=> api_log[img_key(i)][1] = FAILED
        /\ page[i].img = "error" =>
              /\ img_key(i) \in DOMAIN session_state
              /\ api_log[img_key(i)] = <<FAILED>>

\* C10's case: a failed query is displayed as an ordinary visual reference.
C10_Witness ==
    \E i \in ItemSet :
        /\ img_key(i) \in DOMAIN session_state
        /\ api_log[img_key(i)] = <<PyNone>>
        /\ Stored(img_key(i)) = SERVICE_UNAVAILABLE
        /\ page[i].img = "info"

====
